---- MODULE Spec2Model ----
(***************************************************************************)
(* ChromaTerm (src/chromaterm/__init__.py): the rule compiler              *)
(* (parse_config, parse_rule, get_highlight_repl_func), the highlighter    *)
(* (highlight) and the stream driver (main, process_buffer, read_ready).   *)
(*                                                                         *)
(* Text is a sequence of characters, each character a one-element string   *)
(* token.  The input stream is a sequence of bytes; the character EACUTE   *)
(* is the only one whose UTF-8 encoding takes two bytes (xC3 xA9).         *)
(***************************************************************************)
EXTENDS Integers, Sequences, FiniteSets, TLC

\* ------------------------------------------------------------------ bounds
\* Longest input text, in characters.
MaxInput == 3
\* Longest list of rule records in the configuration lists of SpecConfig.
MaxRules == 3
\* Longest input text of the fair specification, in characters.
MaxLiveInput == 2
\* Cap of the history counter of zero-byte reads.
ZeroReadsCap == 3

\* --------------------------------------------------------------- constants
\* Maximum chunk size per read (bytes).
READ_SIZE == 65536

NL == "\n"
CR == "\r"
EACUTE == "eacute"
ESC == "ESC"

\* config['reset_string'] = '\033[0m'
reset_string == <<ESC, "[", "0", "m">>

\* ------------------------------------------------------------ small helpers
Min(a, b) == IF a < b THEN a ELSE b

Last(s) == s[Len(s)]

Front(s) == SubSeq(s, 1, Len(s) - 1)

DropFirst(s, n) == SubSeq(s, n + 1, Len(s))

RECURSIVE Flat(_)
\* Concatenation of a sequence of texts.
Flat(ss) == IF ss = <<>> THEN <<>> ELSE Head(ss) \o Flat(Tail(ss))

\* All sequences over S of length 0..n.
SeqsUpTo(S, n) == UNION {[1..k -> S] : k \in 0..n}

\* ------------------------------------------------------- bytes <-> text
\* str.encode(): UTF-8 bytes of one character.
EncodeChar(c) == IF c = EACUTE THEN <<"xC3", "xA9">> ELSE <<c>>

RECURSIVE Encode(_)
Encode(s) == IF s = <<>> THEN <<>> ELSE EncodeChar(Head(s)) \o Encode(Tail(s))

RECURSIVE Decode(_)
\* bytes.decode(): strict UTF-8.  ok = FALSE stands for UnicodeDecodeError
\* (a lead byte without its continuation byte, or a lone continuation byte).
Decode(b) ==
    IF b = <<>> THEN [ok |-> TRUE, text |-> <<>>]
    ELSE IF Head(b) = "xC3"
         THEN IF Len(b) >= 2 /\ b[2] = "xA9"
              THEN LET r == Decode(DropFirst(b, 2))
                   IN  [ok |-> r.ok, text |-> <<EACUTE>> \o r.text]
              ELSE [ok |-> FALSE, text |-> <<>>]
    ELSE IF Head(b) = "xA9"
         THEN [ok |-> FALSE, text |-> <<>>]
    ELSE LET r == Decode(Tail(b))
         IN  [ok |-> r.ok, text |-> <<Head(b)>> \o r.text]

\* ------------------------------------------------------------ splitlines
RECURSIVE SplitFrom(_, _, _)
\* Scan s from index i; cur is the line collected so far.  Line boundaries
\* are "\n", "\r" and "\r\n" (the other boundaries of str.splitlines, such
\* as "\v" or "\x1c", are not in the alphabet of the model).
SplitFrom(s, i, cur) ==
    IF i > Len(s)
    THEN IF cur = <<>> THEN <<>> ELSE <<cur>>
    ELSE IF s[i] = CR /\ i < Len(s) /\ s[i + 1] = NL
         THEN <<cur \o <<CR, NL>>>> \o SplitFrom(s, i + 2, <<>>)
    ELSE IF s[i] \in {CR, NL}
         THEN <<Append(cur, s[i])>> \o SplitFrom(s, i + 1, <<>>)
    ELSE SplitFrom(s, i + 1, Append(cur, s[i]))

\* buffer.splitlines(True)
splitlines(s) == SplitFrom(s, 1, <<>>)

\* --------------------------------------------------- values read from YAML
\* A value of the loaded configuration is a tagged record: t is the Python
\* type; s, n and items hold a str (its characters), an int and the (key, value) pairs of a
\* dict in insertion order.
None == [t |-> "none"]

StrV(s) == [t |-> "str", s |-> s]

IntV(n) == [t |-> "int", n |-> n]

ListV == [t |-> "list"]

DictV(items) == [t |-> "dict", items |-> items]

\* Python truth value of a YAML value (`not x` is its negation).
Truthy(v) ==
    CASE v.t = "none" -> FALSE
      [] v.t = "str"  -> v.s # <<>>
      [] v.t = "int"  -> v.n # 0
      [] v.t = "dict" -> v.items # <<>>
      [] OTHER        -> TRUE

\* Results of a call: a value, or an exception that propagates.
Ok(text) == [ok |-> TRUE, text |-> text, exc |-> "none"]

Raise(e) == [ok |-> FALSE, text |-> <<>>, exc |-> e]

\* What parse_rule returns: an error string (with the sub-action it names).
Err(msg, key) == [t |-> "err", msg |-> msg, key |-> key]

\* -------------------------------------------------------- colour lookup
\* chromaterm.colors.get_code: the escape sequence of a colour name, or the
\* empty string when the name does not resolve.
get_code(name) ==
    CASE name = <<"r", "e", "d">>      -> <<ESC, "[", "3", "1", "m">>
      [] name = <<"b", "l", "u", "e">> -> <<ESC, "[", "3", "4", "m">>
      [] OTHER                         -> <<>>

\* ------------------------------------------------------ the regex library
\* The patterns of the model are literal characters and capture-group
\* parentheses.  A pattern compiles when its parentheses balance.
RECURSIVE ParenDepth(_, _)
\* Depth after scanning p from depth d; -1 once a ")" has no "(" to close.
ParenDepth(p, d) ==
    IF d < 0 THEN -1
    ELSE IF p = <<>> THEN d
    ELSE IF Head(p) = "(" THEN ParenDepth(Tail(p), d + 1)
    ELSE IF Head(p) = ")" THEN ParenDepth(Tail(p), d - 1)
    ELSE ParenDepth(Tail(p), d)

\* The characters of the pattern that are matched literally.
Literal(p) == SelectSeq(p, LAMBDA c : c \notin {"(", ")"})

\* Number of capture groups of the pattern.
GroupCount(p) == Len(SelectSeq(p, LAMBDA c : c = "("))

\* re.compile(regex): TypeError for a pattern that is no string,
\* regex.error for a pattern that does not parse.
re_compile(regex) ==
    IF regex.t # "str" THEN [ok |-> FALSE, exc |-> "TypeError", groups |-> 0, literal |-> <<>>]
    ELSE IF ParenDepth(regex.s, 0) # 0
         THEN [ok |-> FALSE, exc |-> "regex.error", groups |-> 0, literal |-> <<>>]
    ELSE [ok |-> TRUE, exc |-> "none", groups |-> GroupCount(regex.s),
          literal |-> Literal(regex.s)]

\* The pattern matches the line at index i.
MatchAt(lit, line, i) ==
    /\ i + Len(lit) - 1 <= Len(line)
    /\ \A k \in 1..Len(lit) : line[i + k - 1] = lit[k]

\* Mutant of repl_func: the reset string is left out after the match.
repl_func_no_reset(rule, m) ==
    IF rule.kind = "simple"
    THEN rule.color_code \o m
    ELSE m

\* ------------------------------------------------ get_highlight_repl_func
\* The closure `func` of a compiled rule applied to a match whose group(0)
\* is m.
repl_func(rule, m) ==
    IF rule.kind = "simple"
    THEN rule.color_code \o m \o reset_string
    ELSE m

RECURSIVE SubFrom(_, _, _, _)
\* re.sub from index i of the line: leftmost non-overlapping matches are
\* replaced by repl_func, everything else is copied.
SubFrom(lit, rule, line, i) ==
    IF i > Len(line)
    THEN IF lit = <<>> THEN repl_func(rule, <<>>) ELSE <<>>
    ELSE IF MatchAt(lit, line, i)
         THEN IF lit = <<>>
              THEN repl_func(rule, <<>>) \o <<line[i]>> \o SubFrom(lit, rule, line, i + 1)
              ELSE repl_func(rule, lit) \o SubFrom(lit, rule, line, i + Len(lit))
    ELSE <<line[i]>> \o SubFrom(lit, rule, line, i + 1)

\* re.sub(rule['regex'], rule['repl_func'], line)
re_sub(rule, line) ==
    LET c == re_compile(rule.regex)
    IN  IF c.ok THEN Ok(SubFrom(c.literal, rule, line, 1)) ELSE Raise(c.exc)

RECURSIVE highlight_on_original(_, _)
\* Mutant of highlight: every rule is applied to the original line and the
\* result of the last one is returned.
highlight_on_original(rules_, line) ==
    IF rules_ = <<>> THEN Ok(line)
    ELSE LET r == re_sub(Head(rules_), line)
         IN  IF ~r.ok THEN r
             ELSE IF Tail(rules_) = <<>> THEN r
             ELSE highlight_on_original(Tail(rules_), line)

RECURSIVE highlight(_, _)
\* highlight(rules, line): the rules applied in list order, each to the
\* result of the one before.
highlight(rules_, line) ==
    IF rules_ = <<>> THEN Ok(line)
    ELSE LET r == re_sub(Head(rules_), line)
         IN  IF r.ok THEN highlight(Tail(rules_), r.text) ELSE r

\* A compiled rule: {'regex': regex, 'repl_func': func}; kind, color_code
\* and actions are what the closure func captured.
Compiled(regex, kind, code, actions) ==
    [t |-> "rule", regex |-> regex, kind |-> kind, color_code |-> code,
     actions |-> actions]

\* Mutant of Retained: no sub-action is pruned.
RetainedAll(items, group_count) == items

\* [x for x in color if x <= group_count]
Retained(items, group_count) ==
    SelectSeq(items, LAMBDA it : it.k.n <= group_count)

RECURSIVE ResolveActions(_, _)
\* The loop over the retained groups: the first colour that does not resolve
\* ends it with 'invalid color code'; otherwise actions[group] = color_code.
ResolveActions(items, acc) ==
    IF items = <<>> THEN [ok |-> TRUE, actions |-> acc]
    ELSE LET code == get_code(Head(items).v.s)
         IN  IF code = <<>> THEN [ok |-> FALSE, actions |-> acc]
             ELSE ResolveActions(Tail(items),
                                 Append(acc, [group |-> Head(items).k.n, code |-> code]))

get_highlight_repl_func(regex, color) ==
    IF color.t = "str"
    THEN LET color_code == get_code(color.s)
         IN  IF color_code = <<>> THEN Err("invalid color code", None)
             ELSE Compiled(regex, "simple", color_code, <<>>)
    ELSE LET c == re_compile(regex)
         IN  IF ~c.ok THEN [t |-> "raise", exc |-> c.exc]
             ELSE LET a == ResolveActions(Retained(color.items, c.groups), <<>>)
                  IN  IF ~a.ok THEN Err("invalid color code", None)
                      ELSE Compiled(regex, "complex", <<>>, a.actions)

\* --------------------------------------------------------------- parse_rule
RECURSIVE SubActionError(_)
\* The loop over the sub-actions of a dict colour: the first offending key,
\* or None.
SubActionError(items) ==
    IF items = <<>> THEN None
    ELSE IF Head(items).k.t # "int"
         THEN Err("sub-action not integer", Head(items).k)
    ELSE IF Head(items).v.t # "str"
         THEN Err("sub-action value not string", Head(items).k)
    ELSE SubActionError(Tail(items))

parse_rule(rule) ==
    LET regex == rule.regex
        color == rule.color
    IN  IF ~Truthy(regex) THEN Err("regex not found", None)
        ELSE IF regex.t \notin {"str", "int"} THEN Err("regex not string or integer", None)
        ELSE IF ~Truthy(color) THEN Err("color not found", None)
        ELSE IF color.t \notin {"str", "dict"} THEN Err("color not string or dictionary", None)
        ELSE IF color.t = "dict" /\ SubActionError(color.items) # None
             THEN SubActionError(color.items)
        ELSE get_highlight_repl_func(regex, color)

\* ------------------------------------------------------------- parse_config
\* isinstance(parsed_rule, dict)
IsCompiled(parsed_rule) == parsed_rule.t = "rule"

RECURSIVE ParseRules(_, _, _)
\* The loop of parse_config over the rule records: a compiled rule is
\* appended to config['rules'], an error string is reported with eprint, an
\* exception of parse_rule propagates.
ParseRules(records, acc, errs) ==
    IF records = <<>> THEN [ok |-> TRUE, rules |-> acc, errors |-> errs, exc |-> "none"]
    ELSE LET parsed_rule == parse_rule(Head(records))
         IN  IF parsed_rule.t = "raise"
             THEN [ok |-> FALSE, rules |-> acc, errors |-> errs, exc |-> parsed_rule.exc]
             ELSE IF IsCompiled(parsed_rule)
                  THEN ParseRules(Tail(records), Append(acc, parsed_rule), errs)
             ELSE ParseRules(Tail(records), acc,
                             Append(errs, [rule |-> Head(records), error |-> parsed_rule]))

\* parse_config(data): a document that does not load gives the empty rule
\* list and one reported parse error.
parse_config(doc) ==
    IF ~doc.loads
    THEN [ok |-> TRUE, rules |-> <<>>, exc |-> "none",
          errors |-> <<[rule |-> None, error |-> Err("Parse error", None)]>>]
    ELSE ParseRules(doc.rules, <<>>, <<>>)

\* ------------------------------------------------------------------ state
VARIABLES
    pc,        \* position of main: "config", "wait", "probe", "done", "crashed"
    doc,       \* the configuration document handed to parse_config
    rules,     \* config['rules'], the active rule list
    errors,    \* what eprint has reported, in order
    exc,       \* the exception that ended the run, "none" otherwise
    future,    \* bytes the upstream process has not written yet
    avail,     \* bytes written to stdin and not read yet
    closed,    \* the upstream process has closed its end of stdin
    buffer,    \* main's pending buffer
    more,      \* bool(data) of the current iteration
    out,       \* the print calls so far: the line given to highlight, the
               \* text written and whether the write was flushed
    consumed,  \* history: every byte os.read has returned
    eof,       \* history: a read has returned zero bytes
    zeroReads, \* history: how many reads have returned zero bytes
    timedOut   \* history: a probe after a non-empty read reported not ready

vars == <<pc, doc, rules, errors, exc, future, avail, closed, buffer, more, out,
          consumed, eof, zeroReads, timedOut>>

\* ----------------------------------------------------------------- inputs
Red == <<"r", "e", "d">>

Blue == <<"b", "l", "u", "e">>

NoColor == <<"n", "o">>

\* The characters of the input stream.
StreamChars == {"a", NL, CR, EACUTE}

\* The 'regex' values of the rule records: absent, empty, integers, a list,
\* patterns that compile and patterns that do not.
RegexValues ==
    {None, StrV(<<>>), IntV(0), IntV(5), ListV,
     StrV(<<"a">>), StrV(<<"m">>), StrV(<<"a", "m">>), StrV(<<"(", "a", ")", "m">>),
     StrV(<<"(", "a">>)}

\* The 'color' values of the rule records.
ColorValues ==
    {None, StrV(<<>>), IntV(7), ListV, DictV(<<>>),
     StrV(Red), StrV(NoColor),
     DictV(<<[k |-> IntV(1), v |-> StrV(Red)]>>),
     DictV(<<[k |-> IntV(2), v |-> StrV(Red)]>>),
     DictV(<<[k |-> IntV(1), v |-> StrV(Red)], [k |-> IntV(2), v |-> StrV(Red)]>>),
     DictV(<<[k |-> IntV(1), v |-> StrV(NoColor)]>>),
     DictV(<<[k |-> IntV(2), v |-> StrV(NoColor)]>>),
     DictV(<<[k |-> IntV(-1), v |-> StrV(Red)]>>),
     DictV(<<[k |-> StrV(<<"x">>), v |-> StrV(Red)]>>),
     DictV(<<[k |-> IntV(1), v |-> IntV(7)]>>),
     DictV(<<[k |-> IntV(1), v |-> StrV(Red)], [k |-> StrV(<<"x">>), v |-> IntV(7)]>>),
     DictV(<<[k |-> IntV(1), v |-> IntV(7)], [k |-> StrV(<<"x">>), v |-> StrV(Red)]>>)}

Record(regex, color) == [regex |-> regex, color |-> color]

AllRecords == {Record(r, c) : r \in RegexValues, c \in ColorValues}

\* The records the longer rule lists are built from.
ListRecords ==
    {Record(StrV(<<"a">>), StrV(Red)),
     Record(StrV(<<"m">>), StrV(Blue)),
     Record(StrV(<<"a">>), None),
     Record(StrV(<<"(", "a", ")">>), DictV(<<[k |-> IntV(1), v |-> StrV(Red)]>>)),
     Record(StrV(<<"(", "a">>), StrV(Red)),
     Record(IntV(5), DictV(<<[k |-> IntV(1), v |-> StrV(Red)]>>))}

Loaded(records) == [loads |-> TRUE, rules |-> records]

\* A document yaml.safe_load rejects.
Unloadable == [loads |-> FALSE, rules |-> <<>>]

\* Configurations of the stream specification.
StreamDocs ==
    {Loaded(<<>>),
     Loaded(<<Record(StrV(<<"a">>), StrV(Red))>>),
     Loaded(<<Record(StrV(<<"(", "a">>), StrV(Red))>>)}

\* Configurations of the rule specification.
ConfigDocs ==
    {Unloadable} \cup {Loaded(<<r>>) : r \in AllRecords}
                 \cup {Loaded(l) : l \in SeqsUpTo(ListRecords, MaxRules)}

\* Input texts of the stream specification and of the rule specification.
StreamTexts == SeqsUpTo(StreamChars, MaxInput)

ConfigTexts == {<<"a">>, <<"m">>, <<"a", "m">>, <<"m", "a", "a">>, <<"a", "m", NL, "a">>}

\* ------------------------------------------------------------------- Init
InitWith(docs, texts) ==
    /\ pc = "config"
    /\ doc \in docs
    /\ rules = <<>>
    /\ errors = <<>>
    /\ exc = "none"
    /\ future \in {Encode(t) : t \in texts}
    /\ avail = <<>>
    /\ closed = FALSE
    /\ buffer = <<>>
    /\ more = FALSE
    /\ out = <<>>
    /\ consumed = <<>>
    /\ eof = FALSE
    /\ zeroReads = 0
    /\ timedOut = FALSE

Init == InitWith(StreamDocs, StreamTexts)

InitConfig == InitWith(ConfigDocs, ConfigTexts)

InitLive == InitWith(StreamDocs, SeqsUpTo(StreamChars, MaxLiveInput))

\* ------------------------------------------------------------ environment
Running == pc \notin {"done", "crashed"}

\* The upstream process writes the next n bytes.
Write ==
    /\ Running /\ ~closed /\ future # <<>>
    /\ \E n \in 1..Len(future) :
        /\ avail' = avail \o SubSeq(future, 1, n)
        /\ future' = DropFirst(future, n)
    /\ UNCHANGED <<pc, doc, rules, errors, exc, closed, buffer, more, out, consumed,
                   eof, zeroReads, timedOut>>

\* The upstream process has written everything and closes the stream.
Close ==
    /\ Running /\ ~closed /\ future = <<>>
    /\ closed' = TRUE
    /\ UNCHANGED <<pc, doc, rules, errors, exc, future, avail, buffer, more, out,
                   consumed, eof, zeroReads, timedOut>>

\* ------------------------------------------------------------------- main
\* with open(args.config) as file: config = parse_config(file)
ParseConfig ==
    /\ pc = "config"
    /\ LET c == parse_config(doc)
       IN  /\ errors' = c.errors
           /\ IF c.ok
              THEN /\ rules' = c.rules
                   /\ pc' = "wait"
                   /\ exc' = exc
              ELSE /\ rules' = rules
                   /\ pc' = "crashed"
                   /\ exc' = c.exc
    /\ UNCHANGED <<doc, future, avail, closed, buffer, more, out, consumed, eof,
                   zeroReads, timedOut>>

\* Mutant of read_ready: a closed stdin is not reported ready.
read_ready_data_only(avail_, closed_) == avail_ # <<>>

\* read_ready: stdin is in the ready list of select when it has data or is
\* closed.  With timeout None the caller blocks until this holds.
read_ready(avail_, closed_) == avail_ # <<>> \/ closed_

\* Mutant of LoopBreaks: the break test is lost.
LoopNeverBreaks(buffer_) == FALSE

\* `if not buffer: break`
LoopBreaks(buffer_) == buffer_ = <<>>

\* Mutant of Holds: the last line is held whenever data was read, whatever
\* the probe reports.
HoldsIgnoringProbe(ready, more_) == more_

\* Mutant of Holds: the last line is held whenever the probe reports ready.
HoldsWheneverReady(ready, more_) == ready

\* `if read_ready(WAIT_FOR_NEW_LINE) and more: return lines[-1]`
Holds(ready, more_) == ready /\ more_

\* `return lines[-1]`: the left-over data of a pass that holds.
LeftOver(lines) == Last(lines)

\* Mutant of Unit: the flush of the print call is lost.
UnitNeverFlushed(line, text, flush) == [line |-> line, text |-> text, flush |-> FALSE]

\* One print call.
Unit(line, text, flush) == [line |-> line, text |-> text, flush |-> flush]

RECURSIVE PrintLines(_, _, _)
\* `for line in lines[:-1]: print(highlight(config['rules'], line), end='')`:
\* the units printed, and the exception of highlight that ended the loop.
PrintLines(rules_, lines, acc) ==
    IF lines = <<>> THEN [ok |-> TRUE, units |-> acc, exc |-> "none"]
    ELSE LET h == highlight(rules_, Head(lines))
         IN  IF ~h.ok THEN [ok |-> FALSE, units |-> acc, exc |-> h.exc]
             ELSE PrintLines(rules_, Tail(lines),
                             Append(acc, Unit(Head(lines), h.text, FALSE)))

\* One pass of the loop up to the probe of process_buffer: the wait
\* read_ready(), os.read, decode, the break test, splitlines, the return of
\* process_buffer when there are no lines, and the print of every line but
\* the last.
ReadStep ==
    /\ pc = "wait"
    /\ read_ready(avail, closed)
    /\ LET n == Min(READ_SIZE, Len(avail))
           data == SubSeq(avail, 1, n)
           dec == Decode(data)
           buf == buffer \o dec.text
           lines == splitlines(buf)
           p == PrintLines(rules, Front(lines), <<>>)
       IN  /\ avail' = DropFirst(avail, n)
           /\ consumed' = consumed \o data
           /\ eof' = (eof \/ data = <<>>)
           /\ zeroReads' = IF data = <<>> /\ zeroReads < ZeroReadsCap
                           THEN zeroReads + 1 ELSE zeroReads
           /\ IF ~dec.ok
              THEN /\ pc' = "crashed"
                   /\ exc' = "UnicodeDecodeError"
                   /\ UNCHANGED <<buffer, more, out>>
              ELSE IF LoopBreaks(buf)
              THEN /\ pc' = "done"
                   /\ buffer' = buf
                   /\ UNCHANGED <<exc, more, out>>
              ELSE IF lines = <<>>
              THEN /\ pc' = "wait"
                   /\ buffer' = <<>>
                   /\ more' = (data # <<>>)
                   /\ UNCHANGED <<exc, out>>
              ELSE /\ buffer' = buf
                   /\ more' = (data # <<>>)
                   /\ out' = out \o p.units
                   /\ pc' = IF p.ok THEN "probe" ELSE "crashed"
                   /\ exc' = IF p.ok THEN exc ELSE p.exc
    /\ UNCHANGED <<doc, rules, errors, future, closed, timedOut>>

\* The rest of process_buffer: the probe read_ready(WAIT_FOR_NEW_LINE), then
\* the last line is returned as the new buffer or printed and flushed.
ProbeStep ==
    /\ pc = "probe"
    /\ LET ready == read_ready(avail, closed)
           last == Last(splitlines(buffer))
           h == highlight(rules, last)
       IN  /\ timedOut' = (timedOut \/ (more /\ ~ready))
           /\ IF Holds(ready, more)
              THEN /\ buffer' = LeftOver(splitlines(buffer))
                   /\ pc' = "wait"
                   /\ UNCHANGED <<out, exc>>
              ELSE IF ~h.ok
              THEN /\ pc' = "crashed"
                   /\ exc' = h.exc
                   /\ UNCHANGED <<buffer, out>>
              ELSE /\ out' = Append(out, Unit(last, h.text, TRUE))
                   /\ buffer' = <<>>
                   /\ pc' = "wait"
                   /\ exc' = exc
    /\ UNCHANGED <<doc, rules, errors, future, avail, closed, more, consumed, eof,
                   zeroReads>>

Next == Write \/ Close \/ ParseConfig \/ ReadStep \/ ProbeStep

\* The stream driver on every input text, with a few configurations.
Spec == Init /\ [][Next]_vars

\* The rule compiler on every configuration, with a few input texts.
SpecConfig == InitConfig /\ [][Next]_vars

\* The program keeps running while it can: it is never suspended for ever
\* at a step that is enabled.  Nothing is assumed of the upstream process.
Fairness == WF_vars(ParseConfig) /\ WF_vars(ReadStep) /\ WF_vars(ProbeStep)

FairSpec == InitLive /\ [][Next]_vars /\ Fairness

\* ================================================================== claims
\* What the print calls wrote, and the lines they were given.
Written == Flat([k \in 1..Len(out) |-> out[k].text])

Emitted == [k \in 1..Len(out) |-> out[k].line]

\* The whole input of the run, as bytes and as text.
Input == consumed \o avail \o future

InputText == Decode(Input).text

Exited == pc \in {"done", "crashed"}

\* C1: byte conservation.  With an empty rule set, after every pass of the
\* loop and at the end of the run, what was written followed by the pending
\* buffer is exactly what was read, byte for byte; and at the end of the run
\* the pending buffer is empty.
C1_ByteConservation ==
    (rules = <<>> /\ pc \in {"wait", "done", "crashed"})
        => /\ Encode(Written \o buffer) = consumed
           /\ Exited => buffer = <<>>

\* C2: end-of-stream flush.  Once a read has returned zero bytes, when the
\* pass is over and when the loop exits nothing is retained: every character
\* read has been given to the highlighter and the pending buffer is empty.
C2_EndOfStreamFlush ==
    (eof /\ pc \in {"wait", "done"})
        => /\ buffer = <<>>
           /\ Flat(Emitted) = Decode(consumed).text

\* C2 witness: the loop has exited after a fragment without newline, held
\* back at every probe of the run, was highlighted and flushed at the close.
C2_Witness ==
    /\ pc = "done" /\ eof /\ ~timedOut
    /\ rules # <<>>
    /\ out # <<>>
    /\ Last(out).flush
    /\ Last(out).line # <<>>
    /\ Last(Last(out).line) \notin {NL, CR}
    /\ Last(out).text # Last(out).line

\* C3: termination on close.  Once the source is closed the run ends.
C3_TerminatesOnClose == closed ~> Exited

\* C3 witness: the loop has exited on a closed source after it read and wrote
\* some input.
C3_Witness == closed /\ pc = "done" /\ consumed # <<>> /\ out # <<>>

\* What the run writes when the whole input arrives as one chunk and the
\* probe reports ready: one print call per line of the input, up to the
\* first one on which highlight raises.
OneChunkOutput == PrintLines(rules, splitlines(InputText), <<>>).units

\* C4: ordering under latency.  In a run whose probes all reported ready
\* after a non-empty read, every unit written so far is a whole line of the
\* input, and at the end the output is the output of the one-chunk run.
C4_OrderingUnderLatency ==
    (~timedOut /\ pc # "config" /\ parse_config(doc).ok)
        => /\ \A k \in 1..Len(out) :
                /\ k <= Len(OneChunkOutput)
                /\ out[k].text = OneChunkOutput[k].text
           /\ Exited => Len(out) = Len(OneChunkOutput)

\* C5: complete lines are never held.  Between two passes the pending buffer
\* holds no newline: only the text after the last newline can be retained.
C5_CompleteLinesNeverHeld ==
    pc = "wait" => \A i \in 1..Len(buffer) : buffer[i] # NL

\* Index in pattern p of the "(" that opens group g, and of the ")" that
\* closes the group opened at index i.
OpenIndex(p, g) ==
    CHOOSE i \in 1..Len(p) : p[i] = "(" /\ GroupCount(SubSeq(p, 1, i)) = g

CloseIndex(p, i) ==
    CHOOSE j \in (i + 1)..Len(p) :
        /\ ParenDepth(SubSeq(p, i, j), 0) = 0
        /\ \A j2 \in i..(j - 1) : ParenDepth(SubSeq(p, i, j2), 0) # 0

\* First and last offset, in the matched text, of what group g captured
\* (group 0 is the whole match).
GroupFrom(p, g) ==
    IF g = 0 THEN 1 ELSE Len(Literal(SubSeq(p, 1, OpenIndex(p, g)))) + 1

GroupTo(p, g) ==
    IF g = 0 THEN Len(Literal(p))
    ELSE Len(Literal(SubSeq(p, 1, CloseIndex(p, OpenIndex(p, g)))))

\* The matched text m with the span of every group of the action set that
\* captured something wrapped in its colour code and the reset string,
\* offsets taken in m itself.
WrappedMatch(rule, m) ==
    LET p == rule.regex.s
        acts == SelectSeq(rule.actions,
                          LAMBDA a : /\ a.group \in 0..GroupCount(p)
                                     /\ GroupFrom(p, a.group) <= GroupTo(p, a.group))
        opens(k) == Flat([j \in 1..Len(acts) |->
                            IF GroupFrom(p, acts[j].group) = k THEN acts[j].code ELSE <<>>])
        closes(k) == Flat([j \in 1..Len(acts) |->
                            IF GroupTo(p, acts[j].group) = k THEN reset_string ELSE <<>>])
    IN  Flat([k \in 1..Len(m) |-> opens(k) \o <<m[k]>> \o closes(k)])

\* C6: complex-action colouring.  With one complex-action rule active, a
\* line that is exactly one match of its pattern is written with the span of
\* every retained group wrapped in colour code and reset string.
C6_ComplexActionColouring ==
    \A k \in 1..Len(out) :
        (/\ Len(rules) = 1
         /\ rules[1].kind = "complex"
         /\ out[k].line = Literal(rules[1].regex.s))
            => out[k].text = WrappedMatch(rules[1], out[k].line)

\* The indexes at which the pattern lit matches the line.
MatchIndexes(lit, line) == {i \in 1..Len(line) : MatchAt(lit, line, i)}

\* The configuration holds exactly one record, a simple action whose pattern
\* compiles and whose colour resolves.
OneSimpleRule ==
    /\ doc.loads
    /\ Len(doc.rules) = 1
    /\ doc.rules[1].regex.t = "str"
    /\ doc.rules[1].color.t = "str"
    /\ ParenDepth(doc.rules[1].regex.s, 0) = 0
    /\ Literal(doc.rules[1].regex.s) # <<>>
    /\ get_code(doc.rules[1].color.s) # <<>>

\* Print call k was given a line with exactly one match of the pattern.
OneMatch(k) ==
    /\ OneSimpleRule
    /\ Cardinality(MatchIndexes(Literal(doc.rules[1].regex.s), out[k].line)) = 1

\* C7: simple-action colour wrap.  With one simple-action rule (pattern P,
\* colour code X) a line holding exactly one match m of P is written as the
\* line with m replaced by X + m + reset, everything else unchanged.
C7_SimpleColourWrap ==
    \A k \in 1..Len(out) :
        OneMatch(k) =>
            LET lit == Literal(doc.rules[1].regex.s)
                X == get_code(doc.rules[1].color.s)
                line == out[k].line
                i == CHOOSE j \in MatchIndexes(lit, line) : TRUE
            IN  out[k].text = SubSeq(line, 1, i - 1) \o X \o lit \o reset_string
                                \o DropFirst(line, i + Len(lit) - 1)

\* C7 witness: a line with text before and after its one match was written.
C7_Witness ==
    \E k \in 1..Len(out) :
        /\ OneMatch(k)
        /\ LET i == CHOOSE j \in MatchIndexes(Literal(doc.rules[1].regex.s), out[k].line) : TRUE
           IN  i > 1 /\ i + Len(Literal(doc.rules[1].regex.s)) - 1 < Len(out[k].line)

\* The records of the configuration parse_rule compiles, and those it does
\* not.
Accepted == SelectSeq(doc.rules, LAMBDA r : parse_rule(r).t = "rule")

Rejected == SelectSeq(doc.rules, LAMBDA r : parse_rule(r).t # "rule")

\* C8: per-rule validation isolation.  After parse_config the active rules
\* are the compiled records that pass validation, in order, and one error is
\* reported for each of the other records, in order.
C8_ValidationIsolation ==
    (doc.loads /\ pc # "config")
        => /\ rules = [k \in 1..Len(Accepted) |-> parse_rule(Accepted[k])]
           /\ [k \in 1..Len(errors) |-> errors[k].rule] = Rejected

\* C9: no rule failure escapes.  No exception of the regex library, raised
\* while a rule is compiled or applied, ends the run.
C9_NoRuleFailureEscapes == exc \notin {"TypeError", "regex.error"}

\* The error names of the specification for the messages of parse_rule.
ErrorKind(msg) ==
    CASE msg = "regex not found"                -> "MissingPattern"
      [] msg = "regex not string or integer"    -> "InvalidPatternType"
      [] msg = "color not found"                -> "MissingColor"
      [] msg = "color not string or dictionary" -> "InvalidColorType"
      [] msg = "sub-action not integer"         -> "InvalidSubAction"
      [] msg = "sub-action value not string"    -> "InvalidSubAction"
      [] msg = "invalid color code"             -> "InvalidColorCode"
      [] OTHER                                  -> "Other"

\* A sub-action violates the key and value check.
BadSubAction(it) == it.k.t # "int" \/ it.v.t # "str"

\* The first of the checks on the fields of a record that fails, in the
\* order pattern missing, pattern type, colour missing, colour type,
\* sub-actions; "none" when they all pass.
FirstFailedCheck(r) ==
    IF ~Truthy(r.regex) THEN "MissingPattern"
    ELSE IF r.regex.t \notin {"str", "int"} THEN "InvalidPatternType"
    ELSE IF ~Truthy(r.color) THEN "MissingColor"
    ELSE IF r.color.t \notin {"str", "dict"} THEN "InvalidColorType"
    ELSE IF r.color.t = "dict" /\ \E i \in 1..Len(r.color.items) : BadSubAction(r.color.items[i])
         THEN "InvalidSubAction"
    ELSE "none"

\* The colour names a colour specification that passed the checks refers to.
ColourNames(color) ==
    IF color.t = "str" THEN {color.s}
    ELSE {color.items[i].v.s : i \in 1..Len(color.items)}

\* C10: validation order.  For a configuration of one record, the error
\* reported is that of the first check that fails; when the field checks
\* pass, only colour resolution can still fail; and a record that passes
\* every check, all its colours resolving, is compiled.
C10_ValidationOrder ==
    (doc.loads /\ Len(doc.rules) = 1 /\ pc # "config")
        => LET r == doc.rules[1]
               failed == FirstFailedCheck(r)
               reported(kind) == /\ rules = <<>>
                                 /\ Len(errors) = 1
                                 /\ ErrorKind(errors[1].error.msg) = kind
               compiled == Len(rules) = 1 /\ errors = <<>>
           IN  IF failed # "none" THEN reported(failed)
               ELSE IF \A c \in ColourNames(r.color) : get_code(c) # <<>> THEN compiled
               ELSE IF r.color.t = "str" THEN reported("InvalidColorCode")
               ELSE compiled \/ reported("InvalidColorCode")

\* The configuration holds exactly one record, whose pattern is a string
\* that compiles, and it has been parsed.
OneRecordParsed ==
    /\ doc.loads
    /\ Len(doc.rules) = 1
    /\ pc # "config"
    /\ doc.rules[1].regex.t = "str"
    /\ doc.rules[1].regex.s # <<>>
    /\ ParenDepth(doc.rules[1].regex.s, 0) = 0

\* The record was rejected with one reported error of the given kind.
Reported(kind) ==
    /\ rules = <<>>
    /\ Len(errors) = 1
    /\ ErrorKind(errors[1].error.msg) = kind

\* The keys of a mapping colour that are no non-negative integer or whose
\* value is no string.
OffendingKeys(color) ==
    {color.items[i].k : i \in {j \in 1..Len(color.items) :
        \/ color.items[j].k.t # "int"
        \/ color.items[j].k.n < 0
        \/ color.items[j].v.t # "str"}}

\* C11: sub-action key validation.  A record (with a pattern that compiles)
\* whose mapping colour has a key that is no non-negative integer, or a
\* value that is no string, is rejected with InvalidSubAction naming an
\* offending key, and is not in the active rule set.
C11_SubActionKeyValidation ==
    (/\ OneRecordParsed
     /\ doc.rules[1].color.t = "dict"
     /\ OffendingKeys(doc.rules[1].color) # {})
        => /\ Reported("InvalidSubAction")
           /\ errors[1].error.key \in OffendingKeys(doc.rules[1].color)

\* The record is a mapping colour with valid sub-actions whose colours all
\* resolve, one of them for a group index above the group count of the
\* pattern.
PrunableRecord ==
    /\ OneRecordParsed
    /\ doc.rules[1].color.t = "dict"
    /\ OffendingKeys(doc.rules[1].color) = {}
    /\ LET items == doc.rules[1].color.items
           n == GroupCount(doc.rules[1].regex.s)
       IN  /\ \E i \in 1..Len(items) : items[i].k.n > n
           /\ \A i \in 1..Len(items) : get_code(items[i].v.s) # <<>>

\* C12: group-index pruning.  Such a record compiles without error, its
\* action set holds no group above the group count, and no exception ends
\* the run when the rule is applied.
C12_GroupIndexPruning ==
    PrunableRecord
        => /\ Len(rules) = 1
           /\ errors = <<>>
           /\ \A a \in 1..Len(rules[1].actions) :
                rules[1].actions[a].group <= GroupCount(doc.rules[1].regex.s)
           /\ exc = "none"

\* C12 witness: a rule that kept one sub-action and pruned another has been
\* applied to a line holding a match.
C12_Witness ==
    /\ PrunableRecord
    /\ Len(rules) = 1
    /\ Len(rules[1].actions) = 1
    /\ Len(doc.rules[1].color.items) = 2
    /\ \E k \in 1..Len(out) :
         MatchIndexes(Literal(doc.rules[1].regex.s), out[k].line) # {}

\* C13: colour resolution is checked for every referenced name.  A record
\* (with a pattern that compiles) that passes the field checks and refers to
\* a colour name that does not resolve is rejected with InvalidColorCode.
C13_EveryColourResolved ==
    (/\ OneRecordParsed
     /\ FirstFailedCheck(doc.rules[1]) = "none"
     /\ \E c \in ColourNames(doc.rules[1].color) : get_code(c) = <<>>)
        => Reported("InvalidColorCode")

\* The pattern of a compiled rule matches nothing in the line (a pattern
\* that is no string, or does not compile, matches nothing).
MatchesNothing(rule, line) ==
    \/ ~re_compile(rule.regex).ok
    \/ MatchIndexes(re_compile(rule.regex).literal, line) = {}

\* The lines of the input of the run.
InputLines == {splitlines(InputText)[i] : i \in 1..Len(splitlines(InputText))}

\* C14: non-matching lines are unchanged.  For the active rule list and
\* every line of the input that none of the patterns matches, highlight
\* returns the line.
C14_NonMatchingUnchanged ==
    \A line \in InputLines :
        (\A i \in 1..Len(rules) : MatchesNothing(rules[i], line))
            => highlight(rules, line) = Ok(line)

RECURSIVE LeftFold(_, _, _)
\* The substitutions of the first n rules applied one after the other, the
\* first rule first.
LeftFold(rules_, line, n) ==
    IF n = 0 THEN line
    ELSE re_sub(rules_[n], LeftFold(rules_, line, n - 1)).text

\* C15: rules compound in list order.  What is written for a line is the
\* left fold of the substitutions of the active rules over the line.
C15_RulesCompoundInOrder ==
    \A k \in 1..Len(out) : out[k].text = LeftFold(rules, out[k].line, Len(rules))

\* The active rules in reverse order.
Reversed(rules_) == [i \in 1..Len(rules_) |-> rules_[Len(rules_) + 1 - i]]

\* C15 witness: two rules were applied to a line, the second matched inside
\* the escape sequences the first inserted, and the other order of the rules
\* gives another text.
C15_Witness ==
    \E k \in 1..Len(out) :
        /\ Len(rules) = 2
        /\ LeftFold(rules, out[k].line, 1) # out[k].line
        /\ out[k].text # LeftFold(rules, out[k].line, 1)
        /\ MatchesNothing(rules[2], out[k].line)
        /\ out[k].text # LeftFold(Reversed(rules), out[k].line, 2)

\* C16: empty input emits nothing.  When the source delivers no byte the
\* highlighter is never called and nothing is written, and the loop has
\* exited as soon as a read has returned zero bytes.
C16_EmptyInputEmitsNothing ==
    Input = <<>>
        => /\ out = <<>>
           /\ pc \in {"config", "wait", "done"}
           /\ eof => pc = "done"

\* C16 witness: the loop has exited on an empty input with a rule active.
C16_Witness == Input = <<>> /\ pc = "done" /\ eof /\ rules # <<>>

\* The print calls of out2 are those of out1 followed by one flushed print
\* call for the line.
FlushedOneMore(out1, out2, line) ==
    /\ Len(out2) = Len(out1) + 1
    /\ SubSeq(out2, 1, Len(out1)) = out1
    /\ out2[Len(out2)].line = line
    /\ out2[Len(out2)].flush

\* C17: hold-or-flush decision.  In every pass that runs to its end, the
\* last segment of the buffer becomes the pending buffer when the probe
\* reports ready and the read returned a byte, and nothing is written; in
\* every other case it is written with a flush and the pending buffer is
\* empty.
C17_HoldOrFlush ==
    [][(pc = "probe" /\ pc' = "wait")
        => IF (avail # <<>> \/ closed) /\ more
           THEN buffer' = Last(splitlines(buffer)) /\ out' = out
           ELSE buffer' = <<>> /\ FlushedOneMore(out, out', Last(splitlines(buffer)))]_vars

\* C17 witness: on an open source a fragment was flushed because the probe
\* timed out, after an earlier fragment had been held.
C17_Witness ==
    /\ pc = "wait" /\ ~eof /\ ~closed /\ timedOut
    /\ buffer = <<>>
    /\ out # <<>>
    /\ Last(out).flush
    /\ Len(Last(out).line) > 1
    /\ Last(Last(out).line) \notin {NL, CR}

\* C18: no read after end-of-stream is detected.  Once a read has returned
\* zero bytes no further read is made, so at most one read of the run
\* returns zero bytes.
C18_NoReadAfterEof == zeroReads <= 1

C20_TerminatorOnlyLast ==
    pc = "wait"
        => /\ \A i \in 1..(Len(buffer) - 1) : buffer[i] \notin {NL, CR}
           /\ eof => buffer = <<>>

====
